---- MODULE Spec2Model ----
(***************************************************************************)
(* Model of the twitch_wrapper client (src/src/lib.rs): the header         *)
(* builder Twitch::get_headers, the single-request executor Twitch::query  *)
(* and the pagination aggregator Twitch::query_paginated, driven by an     *)
(* upstream that answers every request with an arbitrary response.         *)
(*                                                                         *)
(* Encodings.                                                              *)
(*  - A u64 is encoded by its two's-complement signed reading: a negative  *)
(*    model integer v stands for the u64 value 2^64 + v.  Wrapping         *)
(*    subtraction is then plain subtraction and the unsigned order is      *)
(*    U64Le.  All values of the model stay far below 2^53, where the f64   *)
(*    division of line 175 is exact.                                       *)
(*  - Strings that the code inspects byte by byte (the client id, the      *)
(*    method) are sequences of byte codes.                                 *)
(*  - An item of a response's `data` array is a record [id, ok]: id is     *)
(*    <<page, position>> as served by the upstream, ok says whether the    *)
(*    JSON object decodes as the caller's item type T.                     *)
(***************************************************************************)
EXTENDS Integers, Sequences, FiniteSets, TLC

\* ---------------------------------------------------------------- bounds
MaxCount == 5
MaxEndpointMaximum == 2
MaxPageLen == 3

\* ------------------------------------------------------------- constants
StreamsMaximum == 100

\* ------------------------------------------------------ input universes
\* "abc", and "a\nc" whose second byte is a forbidden control character
ClientIds == { <<97, 98, 99>>, <<97, 10, 99>> }
\* "GET" and "G T" (a space is not a method token character)
Methods == { <<71, 69, 84>>, <<71, 32, 84>> }
\* the empty cursor and the first cursor of tests::test_query_paginated
Cursors == { "", "abc" }
Counts == 0..MaxCount
EndpointMaximums == 1..MaxEndpointMaximum
\* the `data` array the upstream serves for request number page
PageData(page, len) == [ j \in 1..len |-> [id |-> <<page, j>>, ok |-> TRUE] ]

BadItemData(page) == << [id |-> <<page, 1>>, ok |-> FALSE] >>

\* a response: transport says the send itself failed; json that the body
\* parses; cursor_is_str that body["pagination"]["cursor"] is a string;
\* data_is_array that body["data"] is an array
Reply(t, s, j, cs, c, da, d) ==
    [transport |-> t, status |-> s, json |-> j, cursor_is_str |-> cs,
     cursor |-> c, data_is_array |-> da, data |-> d]

\* what the HTTP capability can hand back for request number page
Replies(page) ==
    { Reply(TRUE, 0, FALSE, FALSE, "", FALSE, <<>>) }
    \cup { Reply(FALSE, s, TRUE, TRUE, "abc", TRUE, PageData(page, 1)) : s \in {404, 500} }
    \cup { Reply(FALSE, 200, FALSE, FALSE, "", FALSE, <<>>) }
    \cup { Reply(FALSE, 200, TRUE, FALSE, "", TRUE, PageData(page, 1)) }
    \cup { Reply(FALSE, 200, TRUE, cs, IF cs THEN "abc" ELSE "", FALSE, <<>>) : cs \in BOOLEAN }
    \cup { Reply(FALSE, 200, TRUE, TRUE, "abc", TRUE, BadItemData(page)) }
    \cup { Reply(FALSE, 200, TRUE, TRUE, c, TRUE, PageData(page, n)) :
                c \in Cursors, n \in 0..MaxPageLen }

\* ------------------------------------------------------- pure functions
\* unsigned order on the signed encoding of u64
U64Le(a, b) == IF (a < 0) = (b < 0) THEN a <= b ELSE b < 0

\* u64 wrapping subtraction on the signed encoding
WrappingSub(a, b) == a - b

\* HeaderValue::from_bytes: visible ASCII, space, tab and obs-text only
IsValidHeaderByte(b) == (b >= 32 /\ b # 127) \/ b = 9

HeaderValueFromBytes(bytes) == \A k \in 1..Len(bytes) : IsValidHeaderByte(bytes[k])

\* Method::from_str of the http 0.1 line that reqwest's blocking Client
\* (lines 24, 118, 128) links: a non-empty sequence of method characters,
\* which are the letters, the digits and ! * + - . ^ _ ` | ~ ; the
\* bytes # $ % & ' (35..39) are rejected there
IsMethodChar(b) ==
    \/ b \in 48..57 \/ b \in 65..90 \/ b \in 97..122
    \/ b \in {33, 42, 43, 45, 46, 94, 95, 96, 124, 126}

MethodFromStr(m) == Len(m) > 0 /\ \A k \in 1..Len(m) : IsMethodChar(m[k])

IsSuccess(status) == status >= 200 /\ status <= 299

Ok(v) == [kind |-> "Ok", err |-> "", items |-> v]
Err(e) == [kind |-> "Err", err |-> e, items |-> <<>>]
Panic(why) == [kind |-> "Panic", err |-> why, items |-> <<>>]
Pending == [kind |-> "Pending", err |-> "", items |-> <<>>]

\* Twitch::get_headers: the header map, or the panic of the unwrap
get_headers(cid) ==
    IF HeaderValueFromBytes(cid)
    THEN [kind |-> "Ok", headers |-> [client_id |-> cid]]
    ELSE [kind |-> "Panic", headers |-> [client_id |-> <<>>]]

\* Twitch::query up to and including the status check and the JSON parse
\* of the body: the outcome and whether a request went out.
query(m, cid, reply) ==
    IF ~MethodFromStr(m) THEN [res |-> Err("InvalidMethod"), sent |-> FALSE]
    ELSE IF get_headers(cid).kind = "Panic"
         THEN [res |-> Panic("InvalidHeaderValue"), sent |-> FALSE]
    ELSE IF reply.transport THEN [res |-> Err("RequestFailed"), sent |-> TRUE]
    ELSE IF ~IsSuccess(reply.status)
         THEN [res |-> Err("UnsuccessfulStatus"), sent |-> TRUE]
    ELSE IF ~reply.json THEN [res |-> Err("DeserializationFailed"), sent |-> TRUE]
    ELSE [res |-> Ok(<<>>), sent |-> TRUE]

PagesToRequestFloor(c, max) == IF max = 0 THEN 0 ELSE c \div max

\* (count as f64 / endpoint_maximum as f64).ceil() as u64
PagesToRequest(c, max) ==
    IF max = 0 THEN (IF c = 0 THEN 0 ELSE -1)
    ELSE (c + max - 1) \div max

ReqCountNoRemainder(idx, pages, c, max, acc) == max

\* the value formatted into `first` for page idx (0-based)
ReqCount(idx, pages, c, max, acc) ==
    IF idx + 1 = pages THEN WrappingSub(c, Len(acc)) ELSE max

\* the subtraction of line 190 leaves the u64 range
ReqCountOverflows(idx, pages, c, acc) == idx + 1 = pages /\ Len(acc) > c

NextAfterStale(old, reply) == IF old = "" THEN reply.cursor ELSE old

\* raw_data["pagination"]["cursor"].as_str().unwrap().to_owned()
NextAfter(old, reply) == reply.cursor

\* serde_json::from_str::<Vec<T>> of the re-serialised data array
ItemsDecode(data) == \A j \in 1..Len(data) : data[j].ok

DecodeItems(data) == [ j \in 1..Len(data) |-> data[j].id ]

AppendItemsFront(acc, decoded) == decoded \o acc

\* items.append(&mut data_items)
AppendItems(acc, decoded) == acc \o decoded

\* ---------------------------------------------------------------- state
VARIABLES client_id, pc, call, method, endpoint_maximum, count,
          pages_to_request, i, items, after, requests, replies, result

vars == << client_id, pc, call, method, endpoint_maximum, count,
           pages_to_request, i, items, after, requests, replies, result >>

\* Twitch::new
Init ==
    /\ client_id \in ClientIds
    /\ pc = "idle"
    /\ call = "none"
    /\ method = <<>>
    /\ endpoint_maximum = 1
    /\ count = 0
    /\ pages_to_request = 0
    /\ i = 0
    /\ items = <<>>
    /\ after = ""
    /\ requests = <<>>
    /\ replies = <<>>
    /\ result = Pending

\* entry of query_paginated, up to the head of the for loop
Enter(name, m, max, c) ==
    /\ pc = "idle"
    /\ pc' = "loop"
    /\ call' = name
    /\ method' = m
    /\ endpoint_maximum' = max
    /\ count' = c
    /\ pages_to_request' = PagesToRequest(c, max)
    /\ i' = 0
    /\ items' = <<>>
    /\ after' = ""
    /\ UNCHANGED << client_id, requests, replies, result >>

QueryPaginatedStart ==
    \E m \in Methods, max \in EndpointMaximums, c \in Counts :
        Enter("query_paginated", m, max, c)

GetStreams ==
    \E c \in Counts : Enter("get_streams", <<71, 69, 84>>, StreamsMaximum, c)

\* the request as the upstream sees it: the `first` and `after` query pairs
\* and the client-id header
Request(first) ==
    [first |-> first, after |-> after,
     client_id |-> get_headers(client_id).headers.client_id]

Finish(r) ==
    /\ pc' = "done"
    /\ result' = r
    /\ UNCHANGED << client_id, call, method, endpoint_maximum, count,
                    pages_to_request, i, items, after >>

\* the for loop is exhausted: Ok(items)
QueryPaginatedReturn ==
    /\ pc = "loop"
    /\ i = pages_to_request
    /\ Finish(Ok(items))
    /\ UNCHANGED << requests, replies >>

\* count - items.len() overflows in a build with overflow checks
ReqCountOverflowPanic ==
    /\ pc = "loop"
    /\ i # pages_to_request
    /\ ReqCountOverflows(i, pages_to_request, count, items)
    /\ Finish(Panic("SubtractOverflow"))
    /\ UNCHANGED << requests, replies >>

\* self.query(...)? fails before a request is built
PageNotSent ==
    /\ pc = "loop"
    /\ i # pages_to_request
    /\ \E reply \in Replies(Len(requests) + 1) :
        LET q == query(method, client_id, reply) IN
        /\ ~q.sent
        /\ Finish(q.res)
        /\ UNCHANGED << requests, replies >>

PageQueryErrSwallowed ==
    /\ pc = "loop"
    /\ i # pages_to_request
    /\ \E reply \in Replies(Len(requests) + 1) :
        LET q == query(method, client_id, reply)
            first == ReqCount(i, pages_to_request, count, endpoint_maximum, items) IN
        /\ q.sent
        /\ q.res.kind = "Err"
        /\ requests' = Append(requests, Request(first))
        /\ replies' = Append(replies, reply)
        /\ i' = i + 1
        /\ UNCHANGED << client_id, pc, call, method, endpoint_maximum, count,
                        pages_to_request, items, after, result >>

\* self.query(...)? sends the request and fails
PageQueryErr ==
    /\ pc = "loop"
    /\ i # pages_to_request
    /\ \E reply \in Replies(Len(requests) + 1) :
        LET q == query(method, client_id, reply)
            first == ReqCount(i, pages_to_request, count, endpoint_maximum, items) IN
        /\ q.sent
        /\ q.res.kind = "Err"
        /\ requests' = Append(requests, Request(first))
        /\ replies' = Append(replies, reply)
        /\ Finish(q.res)

\* the unwrap of line 206 or of line 208 panics
PageEnvelopePanic ==
    /\ pc = "loop"
    /\ i # pages_to_request
    /\ \E reply \in Replies(Len(requests) + 1) :
        LET q == query(method, client_id, reply)
            first == ReqCount(i, pages_to_request, count, endpoint_maximum, items) IN
        /\ q.sent
        /\ q.res.kind = "Ok"
        /\ ~reply.cursor_is_str \/ ~reply.data_is_array
        /\ requests' = Append(requests, Request(first))
        /\ replies' = Append(replies, reply)
        /\ Finish(Panic(IF ~reply.cursor_is_str THEN "CursorUnwrap" ELSE "DataUnwrap"))

\* the data array does not decode as Vec<T>
PageItemsErr ==
    /\ pc = "loop"
    /\ i # pages_to_request
    /\ \E reply \in Replies(Len(requests) + 1) :
        LET q == query(method, client_id, reply)
            first == ReqCount(i, pages_to_request, count, endpoint_maximum, items) IN
        /\ q.sent
        /\ q.res.kind = "Ok"
        /\ reply.cursor_is_str
        /\ reply.data_is_array
        /\ ~ItemsDecode(reply.data)
        /\ requests' = Append(requests, Request(first))
        /\ replies' = Append(replies, reply)
        /\ Finish(Err("DeserializationFailed"))

\* one full iteration of the loop body
PageOk ==
    /\ pc = "loop"
    /\ i # pages_to_request
    /\ \E reply \in Replies(Len(requests) + 1) :
        LET q == query(method, client_id, reply)
            first == ReqCount(i, pages_to_request, count, endpoint_maximum, items) IN
        /\ q.sent
        /\ q.res.kind = "Ok"
        /\ reply.cursor_is_str
        /\ reply.data_is_array
        /\ ItemsDecode(reply.data)
        /\ requests' = Append(requests, Request(first))
        /\ replies' = Append(replies, reply)
        /\ after' = NextAfter(after, reply)
        /\ items' = AppendItems(items, DecodeItems(reply.data))
        /\ i' = i + 1
        /\ UNCHANGED << client_id, pc, call, method, endpoint_maximum, count,
                        pages_to_request, result >>

\* Twitch::query called directly, as in the example of line 95, with
\* T = models::streams::StreamList and no query parameters
QuerySingle ==
    /\ pc = "idle"
    /\ \E m \in Methods, reply \in Replies(1) :
        LET q == query(m, client_id, reply)
            typed == reply.cursor_is_str /\ reply.data_is_array
                     /\ ItemsDecode(reply.data) IN
        /\ pc' = "done"
        /\ call' = "query"
        /\ method' = m
        /\ requests' = IF q.sent THEN Append(requests, Request(0)) ELSE requests
        /\ replies' = IF q.sent THEN Append(replies, reply) ELSE replies
        /\ result' = IF q.res.kind # "Ok" THEN q.res
                     ELSE IF typed THEN Ok(DecodeItems(reply.data))
                     ELSE Err("DeserializationFailed")
        /\ UNCHANGED << client_id, endpoint_maximum, count, pages_to_request,
                        i, items, after >>

Next ==
    \/ QueryPaginatedStart
    \/ GetStreams
    \/ QuerySingle
    \/ QueryPaginatedReturn
    \/ ReqCountOverflowPanic
    \/ PageNotSent
    \/ PageQueryErr
    \/ PageEnvelopePanic
    \/ PageItemsErr
    \/ PageOk

Spec == Init /\ [][Next]_vars

\* ------------------------------------------------------------ properties
Paginated == call \in {"query_paginated", "get_streams"}

Succeeded == Paginated /\ pc = "done" /\ result.kind = "Ok"

RECURSIVE SumLens(_)
\* number of items carried by the first k responses
SumLens(k) == IF k = 0 THEN 0 ELSE SumLens(k - 1) + Len(replies[k].data)

RECURSIVE ConcatData(_)
\* the items of the first k responses, in the order they arrived
ConcatData(k) ==
    IF k = 0 THEN <<>>
    ELSE ConcatData(k - 1) \o [ j \in 1..Len(replies[k].data) |-> replies[k].data[j].id ]

\* the least n with n * max >= c
CeilDiv(c, max) == CHOOSE n \in 0..c : n * max >= c /\ \A l \in 0..c : l * max >= c => n <= l

EveryPageExact == \A k \in 1..Len(requests) : Len(replies[k].data) = requests[k].first

\* C1 (as stated): whenever query_paginated succeeds, the returned list has
\* exactly count items.
C1_LengthIsCount == Succeeded => Len(result.items) = count

\* C1 (amended): whenever query_paginated succeeds and every response carried
\* exactly as many items as its request's `first` asked for, the returned
\* list has exactly count items.
C1_LengthIsCountWhenPagesExact ==
    (Succeeded /\ EveryPageExact) => Len(result.items) = count

C1_Witness ==
    /\ Succeeded /\ EveryPageExact
    /\ count = 5 /\ endpoint_maximum = 2 /\ Len(requests) = 3
    /\ Len(result.items) = 5

\* C2: in every request issued by query_paginated the value of `first` is at
\* most endpoint_maximum, the last page included.
C2_FirstAtMostMaximum ==
    Paginated => \A k \in 1..Len(requests) : U64Le(requests[k].first, endpoint_maximum)

\* C3: the first request carries an empty `after`, and the `after` of request
\* k+1 is exactly the pagination cursor of the response to request k.
C3_CursorThreading ==
    Paginated =>
        \A k \in 1..Len(requests) :
            requests[k].after = IF k = 1 THEN "" ELSE replies[k - 1].cursor

C3_Witness ==
    /\ Paginated /\ Len(requests) = 3
    /\ replies[1].cursor = "abc" /\ replies[2].cursor = ""
    /\ requests[1].after = "" /\ requests[2].after = "abc" /\ requests[3].after = ""

\* C4: a successful query_paginated call has issued exactly
\* ceil(count / endpoint_maximum) requests whatever cursors came back, and
\* count = 0 issues no request and returns the empty list.
C4_RequestCount ==
    Succeeded =>
        /\ Len(requests) = CeilDiv(count, endpoint_maximum)
        /\ count = 0 => (requests = <<>> /\ result.items = <<>>)

C4_Witness ==
    /\ Succeeded /\ count = 5 /\ endpoint_maximum = 2 /\ Len(requests) = 3
    /\ replies[1].cursor = ""

\* C5: `first` is endpoint_maximum for every page except the last and, for
\* the last page, count minus the items accumulated so far, which is the
\* exact remainder of count after the preceding full pages.
C5_PageSizes ==
    Paginated =>
        \A k \in 1..Len(requests) :
            IF k < pages_to_request
            THEN requests[k].first = endpoint_maximum
            ELSE /\ requests[k].first = count - SumLens(k - 1)
                 /\ requests[k].first = count - (pages_to_request - 1) * endpoint_maximum

\* C6: on success the returned list is the concatenation, in request order,
\* of the responses' data arrays, each in the order the upstream gave it.
C6_Concatenation == Succeeded => result.items = ConcatData(Len(replies))

C6_Witness ==
    /\ Succeeded /\ Len(replies) = 2
    /\ result.items = << <<1, 1>>, <<1, 2>>, <<2, 1>>, <<2, 2>> >>

\* the error a failed page is reported with
PageFailure(r) ==
    IF r.transport THEN "RequestFailed"
    ELSE IF ~IsSuccess(r.status) THEN "UnsuccessfulStatus"
    ELSE IF ~r.json THEN "DeserializationFailed"
    ELSE IF r.cursor_is_str /\ r.data_is_array /\ ~ItemsDecode(r.data)
         THEN "DeserializationFailed"
    ELSE "none"

\* C7: when the request for page k fails (transport failure, non-2xx status
\* or undecodable body) the call ends with that error, carries none of the
\* items of the earlier pages, and no request follows request k.
C7_AllOrNothing ==
    Paginated =>
        \A k \in 1..Len(replies) :
            PageFailure(replies[k]) # "none" =>
                /\ pc = "done"
                /\ result.kind = "Err"
                /\ result.err = PageFailure(replies[k])
                /\ result.items = <<>>
                /\ Len(requests) = k

C7_Witness ==
    /\ Paginated /\ pc = "done" /\ Len(replies) = 2
    /\ Len(replies[1].data) = 2
    /\ replies[2].status = 404
    /\ items # <<>>
    /\ result = Err("UnsuccessfulStatus")

\* C8: a 2xx response without a string cursor while more pages remain, or
\* without an array `data`, ends the call with a
\* MalformedPaginationEnvelope error value and not with a panic.
C8_MalformedEnvelopeIsError ==
    Paginated =>
        \A k \in 1..Len(replies) :
            ( /\ ~replies[k].transport /\ IsSuccess(replies[k].status) /\ replies[k].json
              /\ \/ ~replies[k].cursor_is_str /\ k < pages_to_request
                 \/ ~replies[k].data_is_array )
            => (pc = "done" /\ result = Err("MalformedPaginationEnvelope"))

\* C9: with a client id that cannot be encoded as a header value, a call
\* that gets to build a request returns an InvalidHeaderValue error without
\* panicking and without sending anything; with an encodable one every
\* request carries the client id in its client-id header.
C9_InvalidHeaderIsError ==
    /\ ( /\ pc = "done" /\ ~HeaderValueFromBytes(client_id) /\ MethodFromStr(method)
         /\ (Paginated => pages_to_request # 0) )
       => (result = Err("InvalidHeaderValue") /\ requests = <<>>)
    /\ HeaderValueFromBytes(client_id) =>
            \A k \in 1..Len(requests) : requests[k].client_id = client_id

\* C10: the last-page computation count - items.len() never leaves the u64
\* range and never yields 0: every request issued has 1 <= first.
C10_FirstAtLeastOne ==
    Paginated =>
        /\ result # Panic("SubtractOverflow")
        /\ \A k \in 1..Len(requests) : requests[k].first >= 1
====
